---- MODULE Spec2Model ----
(***************************************************************************)
(* Model of iot_driver_copilot/shifu_paios/driver.py: a simulated IoT      *)
(* device served over HTTP.  One daemon thread (update_telemetry) rebinds  *)
(* the module global telemetry_data to a freshly built dict every two      *)
(* seconds; a single-threaded HTTPServer handles one request at a time     *)
(* with ShifuPAIOSHandler (do_GET, do_POST).                               *)
(*                                                                         *)
(* Python dicts are objects: the global telemetry_data is a reference into *)
(* a heap of dicts.  The generator never mutates a dict in place, it binds *)
(* the global to a new one; the set_state command mutates, in place, the   *)
(* dict it fetched from the global.  The two threads interleave between    *)
(* the evaluation steps of lines 86-87.                                    *)
(*                                                                         *)
(* Units: the clock counts ticks, TicksPerSecond to a second.  Floats with *)
(* two decimals (cpu_usage, temperature) are kept in hundredths, raw       *)
(* random floats in thousandths.                                           *)
(***************************************************************************)
EXTENDS Integers, Sequences, FiniteSets, TLC

VARIABLES
    environ,              \* os.environ at start-up
    DEVICE_NAME,          \* line 12
    DEVICE_MODEL,         \* line 13
    DEVICE_MANUFACTURER,  \* line 14
    DEVICE_TYPE,          \* line 15
    heap,                 \* the dict objects: [ObjIds -> dict or Freed]
    telemetry_data,       \* the module global: a reference to a dict of the heap
    now,                  \* clock ticks elapsed since the module was imported
    sleep_left,           \* ticks the generator's time.sleep(2) still has to run
    gen_ticks,            \* history: iterations of update_telemetry completed
    written,              \* history: the measures the latest iteration wrote (or the seed's)
    h_pc,                 \* where the request handler stands
    request,              \* the request being handled, or handled last
    h_val,                \* line 86: the evaluated right-hand side
    h_tgt,                \* line 86: the dict fetched as the assignment's target
    load_tick,            \* history: gen_ticks when h_tgt was last fetched
    response,             \* the response to `request` (Pending while in flight)
    tel_at,               \* history: clock reading when `request`, a GET /telemetry, was answered
    tel_tick,             \* history: gen_ticks when `request`, a GET /telemetry, was answered
    set_tick              \* history: gen_ticks when `request`, a set_state command, was answered

vars == <<environ, DEVICE_NAME, DEVICE_MODEL, DEVICE_MANUFACTURER, DEVICE_TYPE,
          heap, telemetry_data, now, sleep_left, gen_ticks, written,
          h_pc, request, h_val, h_tgt, load_tick, response, tel_at, tel_tick, set_tick>>

----------------------------------------------------------------------------
(* Bounds of the model *)

\* the clock stops at MaxTime ticks
MaxTime == 3

\* clock ticks to a second (the resolution of time.monotonic / time.time)
TicksPerSecond == 1

(* Program constants *)

\* time.sleep(2)
SleepSeconds == 2

SleepTicks == SleepSeconds * TicksPerSecond

\* the history counter gen_ticks stops counting here: the iterations the generator
\* can complete while the clock is bounded by MaxTime
MaxTicks == 1 + MaxTime \div SleepTicks

----------------------------------------------------------------------------
(* Environment and device info, lines 12-15 *)

Unset == "<unset>"

EnvNames == {"DEVICE_NAME", "DEVICE_MODEL", "DEVICE_MANUFACTURER", "DEVICE_TYPE"}

\* the environments the process is started in: nothing set, or name and model set
Environments ==
    { [n \in EnvNames |-> Unset],
      [n \in EnvNames |-> CASE n = "DEVICE_NAME" -> "Edge-7"
                            [] n = "DEVICE_MODEL" -> "PAIOS-X"
                            [] OTHER -> Unset] }

\* os.getenv(name, default)
getenv(env, name, default) == IF env[name] = Unset THEN default ELSE env[name]

----------------------------------------------------------------------------
(* Telemetry, lines 20-40 *)

DeviceStates == {"active", "idle", "maintenance"}

ObjIds == {"d0", "d1", "d2"}

\* a slot of the heap that holds no live dict
Freed == [freed |-> TRUE]

\* the dict the module global refers to
Current == heap[telemetry_data]

\* raw results of random.uniform(a, b) in thousandths: a itself and just below b
random_uniform(a, b) == {a * 1000, b * 1000 - 4}

\* round(x, 2): thousandths to the nearest hundredth
round2(x) == (x + 5) \div 10

\* mutant of random_randint: the upper end is overshot by one
random_randint_overshoot(a, b) == {a, b + 1}

\* results of random.randint(a, b): the two ends of a..b
random_randint(a, b) == {a, b}

\* int(time.monotonic()): whole seconds
time_monotonic_int(t) == t \div TicksPerSecond

\* time.time(): a float, kept in ticks
time_time(t) == t

\* the seed dict of lines 20-27, built at import
SeedTelemetry ==
    [cpu_usage |-> 1370, memory_usage |-> 42, temperature |-> 3780,
     device_state |-> "active", uptime |-> 0, timestamp |-> time_time(0)]

\* mutant of NewTelemetry: the clocks are read once, at import, not in the loop
NewTelemetry_stale(t) ==
    { [cpu_usage |-> round2(c), memory_usage |-> m, temperature |-> round2(tp),
       device_state |-> s, uptime |-> time_monotonic_int(0),
       timestamp |-> time_time(0)] :
        c \in random_uniform(10, 80), m \in random_randint(30, 85),
        tp \in random_uniform(36, 55), s \in DeviceStates }

\* the dicts one iteration of update_telemetry can build at clock reading t
NewTelemetry(t) ==
    { [cpu_usage |-> round2(c), memory_usage |-> m, temperature |-> round2(tp),
       device_state |-> s, uptime |-> time_monotonic_int(t),
       timestamp |-> time_time(t)] :
        c \in random_uniform(10, 80), m \in random_randint(30, 85),
        tp \in random_uniform(36, 55), s \in DeviceStates }

\* the fields of a dict that only the generator writes: the dict without its device_state
Measures(d) == [d EXCEPT !.device_state = "<any>"]

\* a heap slot for a new dict: one that neither the global nor the handler refers to
FreshId == CHOOSE i \in ObjIds : i # telemetry_data /\ i # h_tgt

\* the heap after reference counting has freed every dict nothing refers to
Collect(h, global, held) == [i \in ObjIds |-> IF i = global \/ i = held THEN h[i] ELSE Freed]

----------------------------------------------------------------------------
(* Requests *)

Absent == "<absent>"

\* request targets (self.path)
Targets == {"/telemetry", "/info", "/ctrl", "/nope", "/info?verbose=1"}

\* urlparse(self.path).path: the target without its query string
urlparse_path(target) ==
    CASE target = "/info?verbose=1" -> "/info"
      [] OTHER -> target

\* request bodies sent to POST /ctrl
Bodies ==
    { "", "not-json", "[]", "\"reboot\"", "5", "true", "null", "{}",
      "{\"type\":\"reboot\"}", "{\"type\":\"update\"}", "{\"type\":\"ping\"}",
      "{\"type\":\"set_state\"}",
      "{\"type\":\"set_state\",\"state\":\"maintenance\"}",
      "{\"type\":\"set_state\",\"state\":\"bogus\"}" }

\* a decoded JSON object with the keys the handler looks at
Obj(type, state) == [kind |-> "object", type |-> type, state |-> state]

\* a decoded JSON value that is no object
Val(kind) == [kind |-> kind, type |-> Absent, state |-> Absent]

\* json.loads raised
Raised == Val("raised")

\* json.loads(post_body.decode()), lines 71-76
json_loads(text) ==
    CASE text = "[]" -> Val("array")
      [] text = "\"reboot\"" -> Val("string")
      [] text = "5" -> Val("number")
      [] text = "true" -> Val("boolean")
      [] text = "null" -> Val("null")
      [] text = "{}" -> Obj(Absent, Absent)
      [] text = "{\"type\":\"reboot\"}" -> Obj("reboot", Absent)
      [] text = "{\"type\":\"update\"}" -> Obj("update", Absent)
      [] text = "{\"type\":\"ping\"}" -> Obj("ping", Absent)
      [] text = "{\"type\":\"set_state\"}" -> Obj("set_state", Absent)
      [] text = "{\"type\":\"set_state\",\"state\":\"maintenance\"}" -> Obj("set_state", "maintenance")
      [] text = "{\"type\":\"set_state\",\"state\":\"bogus\"}" -> Obj("set_state", "bogus")
      [] OTHER -> Raised

\* mutant of dict_get: the default wins over the key's value
dict_get_default(obj, key, default) == default

\* dict.get(key, default) on a decoded object
dict_get(obj, key, default) == IF obj[key] = Absent THEN default ELSE obj[key]

\* the decoded object as json.dumps writes it back under command_received
command_received(obj) == [type |-> obj.type, state |-> obj.state]

Req(method, target, body) == [method |-> method, target |-> target, body |-> body]

Requests ==
    { Req("GET", t, "") : t \in Targets }
    \cup { Req("POST", "/ctrl", b) : b \in Bodies }
    \cup { Req("POST", t, "{\"type\":\"reboot\"}") : t \in {"/telemetry", "/info", "/nope"} }
    \cup { Req("PUT", t, "") : t \in {"/telemetry", "/ctrl"} }

NoRequest == Req("-", "-", "")

\* the command of the request in hand
command == json_loads(request.body)

----------------------------------------------------------------------------
(* Responses *)

Resp(status, body) == [status |-> status, body |-> body]

\* nothing was written to the connection
NoResponse == Resp(0, [error |-> "no response"])

\* the handler has not answered yet
Pending == Resp(0, [error |-> "pending"])

NotFound == Resp(404, [error |-> "Not found"])

InvalidJson == Resp(400, [error |-> "Invalid JSON"])

\* BaseHTTPRequestHandler.send_error for a method the handler class has no do_ method for
Unsupported == Resp(501, [html |-> "Unsupported method"])

\* mutant of Info: manufacturer and model change places
Info_swapped ==
    [device_name |-> DEVICE_NAME, device_model |-> DEVICE_MANUFACTURER,
     manufacturer |-> DEVICE_MODEL, device_type |-> DEVICE_TYPE]

\* lines 55-60
Info ==
    [device_name |-> DEVICE_NAME, device_model |-> DEVICE_MODEL,
     manufacturer |-> DEVICE_MANUFACTURER, device_type |-> DEVICE_TYPE]

\* line 87: the f-string
StateMessage(state) == "Device state set to " \o state \o "."

\* mutant of Message: a command without a type is taken for a reboot
Message_reboot(cmd_type) ==
    CASE cmd_type \in {"reboot", Absent} -> "Device will reboot."
      [] cmd_type = "update" -> "OTA update initiated."
      [] OTHER -> "Generic command executed."

\* lines 81-89: the message of a command that is answered at once
Message(cmd_type) ==
    CASE cmd_type = "reboot" -> "Device will reboot."
      [] cmd_type = "update" -> "OTA update initiated."
      [] OTHER -> "Generic command executed."

\* line 80 with the message added
Success(obj, message) ==
    Resp(200, [status |-> "success", command_received |-> command_received(obj),
               message |-> message])

----------------------------------------------------------------------------
(* Start-up, lines 12-27 and 101-106 *)

Init ==
    /\ environ \in Environments
    /\ DEVICE_NAME = getenv(environ, "DEVICE_NAME", "Shifu PAIOS")
    /\ DEVICE_MODEL = getenv(environ, "DEVICE_MODEL", "PAIOS")
    /\ DEVICE_MANUFACTURER = getenv(environ, "DEVICE_MANUFACTURER", "Shifu")
    /\ DEVICE_TYPE = getenv(environ, "DEVICE_TYPE",
                            "Physical AI Operating System, IoT Edge Device Platform")
    /\ heap = [i \in ObjIds |-> IF i = "d0" THEN SeedTelemetry ELSE Freed]
    /\ telemetry_data = "d0"
    /\ now = 0
    /\ sleep_left = 0
    /\ gen_ticks = 0
    /\ written = Measures(SeedTelemetry)
    /\ h_pc = "idle"
    /\ request = NoRequest
    /\ h_val = Absent
    /\ h_tgt = "none"
    /\ load_tick = 0
    /\ response = NoResponse
    /\ tel_at = 0
    /\ tel_tick = 0
    /\ set_tick = 0

config == <<environ, DEVICE_NAME, DEVICE_MODEL, DEVICE_MANUFACTURER, DEVICE_TYPE>>

generator == <<sleep_left, gen_ticks, written>>

handler == <<h_pc, request, h_val, h_tgt, load_tick, response, tel_at, tel_tick, set_tick>>

----------------------------------------------------------------------------
(* The telemetry generator, lines 29-40 *)

\* mutant of update_telemetry: the dict is updated in place, field by field, and
\* the iteration is seen before uptime and timestamp are assigned
update_telemetry_inplace ==
    /\ sleep_left = 0
    /\ \E d \in NewTelemetry(now) :
          /\ heap' = [heap EXCEPT ![telemetry_data] =
                          [d EXCEPT !.uptime = Current.uptime,
                                    !.timestamp = Current.timestamp]]
          /\ written' = Measures(d)
    /\ sleep_left' = SleepTicks
    /\ gen_ticks' = gen_ticks + 1
    /\ UNCHANGED <<config, telemetry_data, now, handler>>

\* mutant of update_telemetry: the loop body runs once and the thread ends
update_telemetry_once ==
    /\ sleep_left = 0
    /\ gen_ticks = 0
    /\ \E d \in NewTelemetry(now) :
          /\ heap' = Collect([heap EXCEPT ![FreshId] = d], FreshId, h_tgt)
          /\ written' = Measures(d)
    /\ telemetry_data' = FreshId
    /\ sleep_left' = SleepTicks
    /\ gen_ticks' = gen_ticks + 1
    /\ UNCHANGED <<config, now, handler>>

\* one iteration of the loop: build a dict, bind the global to it, go to sleep
update_telemetry ==
    /\ sleep_left = 0
    /\ \E d \in NewTelemetry(now) :
          /\ heap' = Collect([heap EXCEPT ![FreshId] = d], FreshId, h_tgt)
          /\ written' = Measures(d)
    /\ telemetry_data' = FreshId
    /\ sleep_left' = SleepTicks
    /\ gen_ticks' = IF gen_ticks < MaxTicks THEN gen_ticks + 1 ELSE gen_ticks
    /\ UNCHANGED <<config, now, handler>>

\* the clock advances one tick; a sleeping generator comes one tick nearer to waking
Advance ==
    /\ now < MaxTime
    /\ now' = now + 1
    /\ sleep_left' = IF sleep_left > 0 THEN sleep_left - 1 ELSE 0
    /\ UNCHANGED <<config, heap, telemetry_data, gen_ticks, written, handler>>

----------------------------------------------------------------------------
(* The request handler, lines 42-99 *)

\* the handler writes resp to the connection and is done with the request;
\* the history variables of an earlier request are forgotten
Answer(req, resp) ==
    /\ request' = req
    /\ response' = resp
    /\ h_pc' = "idle"
    /\ h_val' = Absent
    /\ h_tgt' = "none"
    /\ IF req.method = "GET" /\ urlparse_path(req.target) = "/telemetry"
       THEN tel_at' = now /\ tel_tick' = gen_ticks
       ELSE tel_at' = 0 /\ tel_tick' = 0
    /\ load_tick' = IF h_pc = "message" THEN load_tick ELSE 0
    /\ set_tick' = IF h_pc = "message" THEN gen_ticks ELSE 0

\* BaseHTTPRequestHandler.handle_one_request: the class defines do_GET and do_POST only
handle_other(req) ==
    /\ h_pc = "idle"
    /\ req.method \notin {"GET", "POST"}
    /\ Answer(req, Unsupported)
    /\ UNCHANGED <<config, heap, telemetry_data, now, generator>>

\* lines 48-64
do_GET(req) ==
    /\ h_pc = "idle"
    /\ req.method = "GET"
    /\ LET path == urlparse_path(req.target) IN
         IF path = "/telemetry" THEN Answer(req, Resp(200, Current))
         ELSE IF path = "/info" THEN Answer(req, Resp(200, Info))
         ELSE Answer(req, NotFound)
    /\ UNCHANGED <<config, heap, telemetry_data, now, generator>>

\* lines 66-95, up to line 85: everything but the body of the set_state branch
do_POST(req) ==
    /\ h_pc = "idle"
    /\ req.method = "POST"
    /\ LET path == urlparse_path(req.target)
           cmd == json_loads(req.body)
       IN  IF path # "/ctrl" THEN Answer(req, NotFound)
           ELSE IF cmd = Raised THEN Answer(req, InvalidJson)
           \* line 79: command.get raises AttributeError on a value that is no dict;
           \* the server drops the connection without a response
           ELSE IF cmd.kind # "object" THEN Answer(req, NoResponse)
           ELSE IF cmd.type = "set_state"
                THEN /\ request' = req
                     /\ response' = Pending
                     /\ h_pc' = "rhs"
                     /\ tel_at' = 0
                     /\ tel_tick' = 0
                     /\ set_tick' = 0
                     /\ load_tick' = 0
                     /\ UNCHANGED <<h_val, h_tgt>>
           ELSE Answer(req, Success(cmd, Message(cmd.type)))
    /\ UNCHANGED <<config, heap, telemetry_data, now, generator>>

\* line 86, right-hand side: command.get('state', telemetry_data['device_state'])
set_state_rhs ==
    /\ h_pc = "rhs"
    /\ h_val' = dict_get(command, "state", Current.device_state)
    /\ h_pc' = "target"
    /\ UNCHANGED <<config, heap, telemetry_data, now, generator,
                   request, h_tgt, load_tick, response, tel_at, tel_tick, set_tick>>

\* line 86, target: the global telemetry_data is fetched
set_state_target ==
    /\ h_pc = "target"
    /\ h_tgt' = telemetry_data
    /\ load_tick' = gen_ticks
    /\ h_pc' = "store"
    /\ UNCHANGED <<config, heap, telemetry_data, now, generator,
                   request, h_val, response, tel_at, tel_tick, set_tick>>

\* mutant of set_state_store: the store also stamps the dict with the time
set_state_store_stamp ==
    /\ h_pc = "store"
    /\ heap' = Collect([heap EXCEPT ![h_tgt].device_state = h_val,
                                    ![h_tgt].timestamp = time_time(now)],
                       telemetry_data, "none")
    /\ h_tgt' = "none"
    /\ h_val' = Absent
    /\ h_pc' = "message"
    /\ UNCHANGED <<config, telemetry_data, now, generator,
                   request, load_tick, response, tel_at, tel_tick, set_tick>>

\* line 86, store: the fetched dict's device_state is assigned
set_state_store ==
    /\ h_pc = "store"
    /\ heap' = Collect([heap EXCEPT ![h_tgt].device_state = h_val],
                       telemetry_data, "none")
    /\ h_tgt' = "none"
    /\ h_val' = Absent
    /\ h_pc' = "message"
    /\ UNCHANGED <<config, telemetry_data, now, generator,
                   request, load_tick, response, tel_at, tel_tick, set_tick>>

\* lines 87 and 91-92: the message reads the global again; the response is sent
set_state_respond ==
    /\ h_pc = "message"
    /\ Answer(request, Success(command, StateMessage(Current.device_state)))
    /\ UNCHANGED <<config, heap, telemetry_data, now, generator>>

Next ==
    \/ update_telemetry
    \/ Advance
    \/ \E req \in Requests : handle_other(req)
    \/ \E req \in Requests : do_GET(req)
    \/ \E req \in Requests : do_POST(req)
    \/ set_state_rhs
    \/ set_state_target
    \/ set_state_store
    \/ set_state_respond

Spec == Init /\ [][Next]_vars

\* the clock advances only while the generator sleeps: a generator that is due
\* runs before the clock's next tick
AdvanceTimely ==
    /\ sleep_left > 0
    /\ Advance

NextTimely ==
    \/ update_telemetry
    \/ AdvanceTimely
    \/ \E req \in Requests : handle_other(req)
    \/ \E req \in Requests : do_GET(req)
    \/ \E req \in Requests : do_POST(req)
    \/ set_state_rhs
    \/ set_state_target
    \/ set_state_store
    \/ set_state_respond

\* the process with a generator thread that is scheduled as soon as its sleep ends
SpecTimely == Init /\ [][NextTimely]_vars

\* time goes on for the lifetime of the process; clock readings past MaxTime are
\* all taken as MaxTime
AdvanceLive ==
    /\ now' = IF now < MaxTime THEN now + 1 ELSE now
    /\ sleep_left' = IF sleep_left > 0 THEN sleep_left - 1 ELSE 0
    /\ UNCHANGED <<config, heap, telemetry_data, gen_ticks, written, handler>>

\* one request of each kind: unmatched (404, 501), malformed (400), crashing the
\* handler, and a valid set_state command
LiveRequests ==
    { Req("GET", "/nope", ""), Req("PUT", "/ctrl", ""),
      Req("POST", "/ctrl", "not-json"), Req("POST", "/ctrl", "[]"),
      Req("POST", "/ctrl", "{\"type\":\"set_state\",\"state\":\"bogus\"}") }

\* start-up with nothing set in the environment
InitLive == Init /\ environ = [n \in EnvNames |-> Unset]

NextLive ==
    \/ update_telemetry
    \/ AdvanceLive
    \/ \E req \in LiveRequests : handle_other(req)
    \/ \E req \in LiveRequests : do_GET(req)
    \/ \E req \in LiveRequests : do_POST(req)
    \/ set_state_rhs
    \/ set_state_target
    \/ set_state_store
    \/ set_state_respond

\* the process for its whole lifetime: time passes, and the scheduler lets the
\* generator thread run whenever its sleep has ended; requests may come or not
SpecLive ==
    InitLive /\ [][NextLive]_vars /\ WF_vars(AdvanceLive) /\ WF_vars(update_telemetry)

----------------------------------------------------------------------------
(* Vocabulary of the properties *)

GetTelemetry == Req("GET", "/telemetry", "")

SetMaintenance == Req("POST", "/ctrl", "{\"type\":\"set_state\",\"state\":\"maintenance\"}")

\* the handler has finished with `request`
Handled == h_pc = "idle" /\ request # NoRequest

\* `request` is one of the three routes
IsRoute(req) ==
    \/ req.method = "GET" /\ urlparse_path(req.target) \in {"/telemetry", "/info"}
    \/ req.method = "POST" /\ urlparse_path(req.target) = "/ctrl"

\* `request` was a POST /ctrl and has been handled
CtrlHandled == Handled /\ request.method = "POST" /\ urlparse_path(request.target) = "/ctrl"

\* `request` was a set_state command and has been handled
SetStateHandled == CtrlHandled /\ command.kind = "object" /\ command.type = "set_state"

----------------------------------------------------------------------------
(* C1 *)

\* C1 (as claimed): once POST /ctrl {"type":"set_state","state":"maintenance"} has
\* been answered, the GET /telemetry that follows shows device_state "maintenance".
C1_SetStateThenGet ==
    [][ (Handled /\ request = SetMaintenance /\ response.status = 200
            /\ do_GET(GetTelemetry))
        => response'.body.device_state = "maintenance" ]_vars

\* C1 (amended): once POST /ctrl {"type":"set_state","state":"maintenance"} has been
\* answered, the GET /telemetry that follows shows device_state "maintenance",
\* provided the generator has completed no iteration since the handler fetched the
\* shared dict as the target of its assignment.
C1_SetStateThenGetNoTick ==
    [][ (Handled /\ request = SetMaintenance /\ response.status = 200
            /\ gen_ticks = load_tick /\ do_GET(GetTelemetry))
        => response'.body.device_state = "maintenance" ]_vars

\* the command has been answered after a generator iteration and none has come
\* since the handler fetched its target: the snapshot a GET returns now holds the
\* command's state
C1_Witness ==
    /\ Handled /\ request = SetMaintenance /\ response.status = 200
    /\ gen_ticks = load_tick /\ gen_ticks > 0
    /\ Current.device_state = "maintenance"

----------------------------------------------------------------------------
(* C2 *)

\* C2: POST /ctrl answers 200 when the body is valid JSON of any kind and
\* 400 {"error": "Invalid JSON"} otherwise; it never ends without one of the two.
C2_CtrlAnswers200Or400 ==
    CtrlHandled =>
        IF request.body \in {"", "not-json"}
        THEN response = InvalidJson
        ELSE response.status = 200

----------------------------------------------------------------------------
(* C3 *)

\* C3: every request that is not GET /telemetry, GET /info or POST /ctrl is
\* answered 404 {"error": "Not found"}, whatever its method.
C3_UnmatchedIs404 ==
    (Handled /\ ~IsRoute(request)) => response = Resp(404, [error |-> "Not found"])

----------------------------------------------------------------------------
(* C4 *)

\* the value some set_state command or generator iteration can give device_state
StateValues == DeviceStates \cup {"bogus"}

\* C4: a JSON-object command posted to /ctrl is answered 200 with status "success",
\* command_received equal to the decoded command, and the message its type selects.
C4_ObjectCommandAnswer ==
    (CtrlHandled /\ command.kind = "object") =>
        /\ response.status = 200
        /\ response.body.status = "success"
        /\ response.body.command_received = [type |-> command.type, state |-> command.state]
        /\ response.body.message \in
              CASE command.type = "reboot" -> {"Device will reboot."}
                [] command.type = "update" -> {"OTA update initiated."}
                [] command.type = "set_state" ->
                      {"Device state set to " \o v \o "." : v \in StateValues}
                [] OTHER -> {"Generic command executed."}

\* a set_state command is answered with the state it set, after a generator iteration
C4_Witness ==
    /\ SetStateHandled /\ gen_ticks > 0
    /\ response.body.message = "Device state set to bogus."

----------------------------------------------------------------------------
(* C5 *)

\* the value start-up reads for an environment variable
Configured(name, default) == IF environ[name] = Unset THEN default ELSE environ[name]

ConfiguredInfo ==
    [device_name |-> Configured("DEVICE_NAME", "Shifu PAIOS"),
     device_model |-> Configured("DEVICE_MODEL", "PAIOS"),
     manufacturer |-> Configured("DEVICE_MANUFACTURER", "Shifu"),
     device_type |-> Configured("DEVICE_TYPE",
                        "Physical AI Operating System, IoT Edge Device Platform")]

\* C5: GET /info answers 200 with exactly the four strings configured at start-up,
\* whatever generator iterations and commands have happened.
C5_InfoIsConfigured ==
    /\ Info = ConfiguredInfo
    /\ (Handled /\ request.method = "GET" /\ urlparse_path(request.target) = "/info")
          => response = Resp(200, ConfiguredInfo)

\* /info is answered from a customised environment after the generator has run and
\* a command has changed the snapshot
C5_Witness ==
    /\ Handled /\ request.method = "GET" /\ urlparse_path(request.target) = "/info"
    /\ response.status = 200
    /\ environ["DEVICE_NAME"] # Unset
    /\ gen_ticks > 0
    /\ Current.device_state = "bogus"

----------------------------------------------------------------------------
(* C6 *)

\* cpu_usage in [10,80] and temperature in [36,55] (hundredths), memory_usage an
\* integer in [30,85]
InRange(d) ==
    /\ d.cpu_usage \in 1000..8000
    /\ d.memory_usage \in 30..85
    /\ d.temperature \in 3600..5500

\* C6: every snapshot GET /telemetry can show, the seed and those a set_state
\* command has modified included, has its three measures in range.
C6_MeasuresInRange ==
    /\ InRange(Current)
    /\ (Handled /\ request = GetTelemetry) => InRange(response.body)

\* GET /telemetry shows a generated snapshot whose state a command has set
C6_Witness ==
    /\ Handled /\ request = GetTelemetry
    /\ response.body.device_state = "bogus"
    /\ response.body.cpu_usage = 8000
    /\ response.body.memory_usage = 85

----------------------------------------------------------------------------
(* C7 *)

\* C7: the shared snapshot's device_state is always active, idle or maintenance.
C7_DeviceStateIsEnum == Current.device_state \in DeviceStates

----------------------------------------------------------------------------
(* C8 *)

\* C8 (as claimed): two GET /telemetry taken at least 2 seconds apart have
\* different bodies.
C8_TwoSecondsApartDiffer ==
    [][ (Handled /\ request = GetTelemetry /\ do_GET(GetTelemetry)
            /\ now - tel_at >= 2 * TicksPerSecond)
        => response'.body # response.body ]_vars

\* C8 (amended): two GET /telemetry that show the snapshots of two different
\* iterations of the generator have different bodies: they differ in uptime.
C8_TickBetweenDiffer ==
    [][ (Handled /\ request = GetTelemetry /\ do_GET(GetTelemetry)
            /\ tel_tick > 0 /\ gen_ticks > tel_tick)
        => /\ response'.body # response.body
           /\ response'.body.uptime # response.body.uptime ]_vars

\* a GET /telemetry has shown a generated snapshot, and the generator has since
\* replaced it with one that differs in neither measure nor state
C8_Witness ==
    /\ Handled /\ request = GetTelemetry
    /\ tel_tick > 0 /\ gen_ticks > tel_tick
    /\ [Current EXCEPT !.uptime = 0, !.timestamp = 0]
          = [response.body EXCEPT !.uptime = 0, !.timestamp = 0]

----------------------------------------------------------------------------
(* C9 *)

\* C9: a set_state command carrying state s is answered "Device state set to s.".
C9_MessageReportsCommandState ==
    (SetStateHandled /\ command.state # Absent)
        => response.body.message = "Device state set to " \o command.state \o "."

----------------------------------------------------------------------------
(* C10 *)

\* C10: a set_state command without a state field never changes the device_state
\* of the current shared snapshot.
C10_NoStateNoChange ==
    [][ (command.state = Absent /\ set_state_store)
        => Current'.device_state = Current.device_state ]_vars

----------------------------------------------------------------------------
(* C11 *)

\* C11: once a set_state command carrying state s has been answered, a GET
\* /telemetry that follows with no generator iteration in between shows
\* device_state s: the command's write is never lost.
C11_WriteLandsInCurrent ==
    [][ (SetStateHandled /\ command.state # Absent /\ response.status = 200
            /\ gen_ticks = set_tick /\ do_GET(GetTelemetry))
        => response'.body.device_state = command.state ]_vars

----------------------------------------------------------------------------
(* C12 *)

\* C12: no step of the request handler rebinds the shared snapshot or changes a
\* field of it other than device_state, and only the store of a set_state command
\* posted to /ctrl changes device_state: GET requests, 404 and 400 answers, and
\* reboot, update and generic commands leave the snapshot as it is.
C12_OnlySetStateWrites ==
    [][ (gen_ticks' = gen_ticks) =>
          /\ telemetry_data' = telemetry_data
          /\ Measures(Current') = Measures(Current)
          /\ (Current' # Current) =>
                /\ request.method = "POST" /\ urlparse_path(request.target) = "/ctrl"
                /\ command.kind = "object" /\ command.type = "set_state"
                /\ h_pc = "store" /\ h_pc' = "message" ]_vars

\* a set_state command has just stored a new device_state into a generated snapshot
\* while the clock has moved on since the snapshot was written
C12_Witness ==
    /\ h_pc = "message"
    /\ Current.device_state = "bogus"
    /\ gen_ticks > 0
    /\ now > Current.timestamp

----------------------------------------------------------------------------
(* C13 *)

\* C13: the body of every GET /telemetry is untorn: its cpu_usage, memory_usage,
\* temperature, uptime and timestamp are those one iteration of the generator
\* wrote together (or all the seed's), as are those of the shared snapshot itself.
C13_BodyIsOneSnapshot ==
    /\ Measures(Current) = written
    /\ (Handled /\ request = GetTelemetry /\ tel_tick = gen_ticks)
          => Measures(response.body) = written

\* GET /telemetry shows the snapshot of the generator's second iteration while a
\* set_state command has changed its device_state
C13_Witness ==
    /\ Handled /\ request = GetTelemetry /\ tel_tick = gen_ticks
    /\ gen_ticks > 1
    /\ response.body.device_state = "bogus"
    /\ response.body.timestamp >= SleepTicks

----------------------------------------------------------------------------
(* C14 *)

\* C14: under fair scheduling the generator completes iterations again and again
\* whatever requests arrive, so every snapshot is eventually replaced by a new
\* dict, and a device_state written by set_state eventually gives way to one the
\* generator drew.
C14_GeneratorNeverStops ==
    []<><<update_telemetry /\ telemetry_data' # telemetry_data
             /\ Current'.device_state \in DeviceStates>>_vars

\* the generator has run for as long as the clock counts, the handler has just crashed on a
\* body that is no JSON object, and the snapshot holds a state set by a command
C14_Witness ==
    /\ gen_ticks = MaxTicks /\ now = MaxTime
    /\ Handled /\ request = Req("POST", "/ctrl", "[]") /\ response = NoResponse
    /\ Current.device_state = "bogus"

====
